---- MODULE Spec2Model ----
(***************************************************************************)
(* A model of scripts/generate-twitter-card.js: the batch job that opens   *)
(* every article in a headless browser, captures a card image and writes   *)
(* the card's public path into the article's front matter.                 *)
(*                                                                         *)
(* Paths and file names are sequences of one-character strings (directory  *)
(* names are single tokens), so that path.extname and path.basename are    *)
(* computed the way Node computes them.  An article file is a sequence of  *)
(* lines: a "---" delimiter, the front matter entries, a "---" delimiter   *)
(* and the body lines.                                                     *)
(***************************************************************************)
EXTENDS Integers, Sequences, FiniteSets, TLC

(***************************************************************************)
(* Bounds of the model.                                                    *)
(***************************************************************************)
\* entries of the content directory in one run of the batch
MaxFiles == 2
\* command line arguments of one run
MaxArgs == 3
\* runs of the script, one after the other, over the same file system
MaxRuns == 2
\* entries of an article's image list before the update
MaxImages == 2
\* applications of updatePost to one article
MaxApply == 2
\* entries of the directory listing handed to getAllPosts alone
MaxListing == 3

(***************************************************************************)
(* Generic helpers.                                                        *)
(***************************************************************************)
Range(s) == {s[i] : i \in 1..Len(s)}

MaxOf(S) == CHOOSE x \in S : \A y \in S : y <= x

MinOf(S) == CHOOSE x \in S : \A y \in S : x <= y

\* all sequences over S of length at most n
RECURSIVE SeqsUpTo(_, _)
SeqsUpTo(S, n) ==
  IF n = 0 THEN {<<>>} ELSE SeqsUpTo(S, n - 1) \cup [1..n -> S]

\* the duplicate-free sequences over S of length at most n
SeqsNoDup(S, n) == {s \in SeqsUpTo(S, n) : Cardinality(Range(s)) = Len(s)}

(***************************************************************************)
(* Paths (Node's path module, POSIX flavour).                              *)
(***************************************************************************)
\* const POSTS_DIR = path.join(__dirname, '../data/blog/')
POSTS_DIR == <<"/", "boopathi", ".", "blog", "/", "data", "/", "blog", "/">>

\* path.join(POSTS_DIR, it): POSTS_DIR ends with a separator
JoinPostsDir(it) == POSTS_DIR \o it

\* the index after the last "/" of p: where the last portion of p starts
StartPart(p) ==
  LET slashes == {i \in 1..Len(p) : p[i] = "/"}
  IN  IF slashes = {} THEN 1 ELSE MaxOf(slashes) + 1

\* an extname that takes the first "." of the last portion for the last
extname_FirstDot(p) ==
  LET sp   == StartPart(p)
      dots == {i \in sp..Len(p) : p[i] = "."}
  IN  IF dots = {} THEN <<>>
      ELSE LET startDot == MinOf(dots)
           IN  IF startDot = sp THEN <<>>
               ELSE SubSeq(p, startDot, Len(p))

\* path.extname(p): from the last "." of the last portion to the end; empty
\* when there is no ".", when the only "." is the first character of the last
\* portion, and for the portion ".."
extname(p) ==
  LET sp   == StartPart(p)
      dots == {i \in sp..Len(p) : p[i] = "."}
  IN  IF dots = {} THEN <<>>
      ELSE LET startDot == MaxOf(dots)
           IN  IF startDot = sp THEN <<>>
               ELSE IF SubSeq(p, sp, Len(p)) = <<".", ".">> THEN <<>>
               ELSE SubSeq(p, startDot, Len(p))

\* whether s ends with suffix
EndsWith(s, suffix) ==
  /\ Len(suffix) <= Len(s)
  /\ SubSeq(s, Len(s) - Len(suffix) + 1, Len(s)) = suffix

\* path.basename(p, ext): the last portion of p, without ext when the portion
\* ends with ext and is not ext itself
basename(p, ext) ==
  LET base == SubSeq(p, StartPart(p), Len(p))
  IN  IF ext # <<>> /\ base # ext /\ EndsWith(base, ext)
      THEN SubSeq(base, 1, Len(base) - Len(ext))
      ELSE base

MdExt == <<".", "m", "d">>

IsMd(it) == extname(it) = MdExt

Stem(it) == basename(it, extname(it))

\* a listing that keeps every file, whatever its extension
getAllPosts_KeepAll(entries) ==
  [i \in 1..Len(entries) |-> Stem(JoinPostsDir(entries[i]))]

\* getAllPosts(): readdirSync(POSTS_DIR).map(join).filter(extname is .md)
\*                .map(basename without the extension)
getAllPosts(entries) ==
  LET joined == [i \in 1..Len(entries) |-> JoinPostsDir(entries[i])]
      mds    == SelectSeq(joined, IsMd)
  IN  [i \in 1..Len(mds) |-> Stem(mds[i])]

(***************************************************************************)
(* Article files and their front matter (gray-matter).                     *)
(*   a line is   [t |-> "delim"]                       the "---" line      *)
(*               [t |-> "entry", key |-> k, val |-> v]  a front matter key *)
(*               [t |-> "body", s |-> text]             a line of the body *)
(*   a value is  [kind |-> "null"], [kind |-> "str", s |-> text] or        *)
(*               [kind |-> "list", items |-> sequence of paths]            *)
(***************************************************************************)
Delim == [t |-> "delim"]

Entry(k, v) == [t |-> "entry", key |-> k, val |-> v]

Body(x) == [t |-> "body", s |-> x]

Null == [kind |-> "null"]

Undefined == [kind |-> "undefined"]

Str(x) == [kind |-> "str", s |-> x]

List(items) == [kind |-> "list", items |-> items]

\* the index of the delimiter closing the front matter, or one past the end
\* of the text when the block is never closed
CloseIndex(text) ==
  LET closers == {j \in 2..Len(text) : text[j] = Delim}
  IN  IF closers = {} THEN Len(text) + 1 ELSE MinOf(closers)

\* the YAML block as an object: its keys with their values, in order
YamlLoad(lines) ==
  LET entries == SelectSeq(lines, LAMBDA l : l.t = "entry")
  IN  [i \in 1..Len(entries) |-> [key |-> entries[i].key, val |-> entries[i].val]]

\* the object as a YAML block: one line per key, in the object's key order
YamlDump(data) == [i \in 1..Len(data) |-> Entry(data[i].key, data[i].val)]

\* matter(contents): the front matter as data and the rest as content; a text
\* that does not open with the delimiter has no front matter
matter(text) ==
  IF Len(text) = 0 \/ text[1] # Delim
  THEN [data |-> <<>>, content |-> text]
  ELSE [data    |-> YamlLoad(SubSeq(text, 2, CloseIndex(text) - 1)),
        content |-> SubSeq(text, CloseIndex(text) + 1, Len(text))]

\* matter.stringify(content, data): the delimited YAML block, then the content
\* (no block for an empty object)
MatterStringify(content, data) ==
  IF data = <<>> THEN content
  ELSE <<Delim>> \o YamlDump(data) \o <<Delim>> \o content

\* data[k]: undefined for a key the object does not have
GetKey(data, k) ==
  IF \E i \in 1..Len(data) : data[i].key = k
  THEN data[CHOOSE i \in 1..Len(data) : data[i].key = k].val
  ELSE Undefined

\* data[k] = v: an existing key keeps its place, a new key goes last
SetKey(data, k, v) ==
  IF \E i \in 1..Len(data) : data[i].key = k
  THEN [i \in 1..Len(data) |->
          IF data[i].key = k THEN [key |-> k, val |-> v] ELSE data[i]]
  ELSE Append(data, [key |-> k, val |-> v])

\* a card path that leaves the post out
TargetUrl_NoPost(p) == <<"/static/blog/", "/twitter-card.png">>

\* `/static/blog/${post}/twitter-card.png`
TargetUrl(p) == <<"/static/blog/">> \o p \o <<"/twitter-card.png">>

\* frontMatter.data.images == null: the key is missing or holds null
ImagesIsNull(data) == GetKey(data, "images") \in {Undefined, Null}

\* an update that empties the image list it finds
WithImages_Reset(data) == SetKey(data, "images", List(<<>>))

\* if (frontMatter.data.images == null) frontMatter.data.images = []
WithImages(data) ==
  IF ImagesIsNull(data) THEN SetKey(data, "images", List(<<>>)) ELSE data

\* an includes that never finds x
Includes_Never(items, x) == FALSE

\* Array.prototype.includes: some element is equal to x
Includes(items, x) == \E i \in 1..Len(items) : items[i] = x

\* push in the place of unshift: x goes last
Unshift_Push(items, x) == Append(items, x)

\* Array.prototype.unshift: x goes first
Unshift(items, x) == <<x>> \o items

\* String.prototype.includes: x is a part of s
StringIncludes(s, x) ==
  \E i \in 0..(Len(s) - Len(x)) : SubSeq(s, i + 1, i + Len(x)) = x

\* images.includes(targetUrl): the method of the array, or of the string
\* when the front matter gives images one string
ImagesIncludes(images, x) ==
  IF images.kind = "str" THEN StringIncludes(images.s, x)
  ELSE Includes(images.items, x)

\* images.unshift(targetUrl) throws: a string has no unshift
UnshiftThrows(data, targetUrl) ==
  LET images == GetKey(data, "images")
  IN  images.kind = "str" /\ ~ImagesIncludes(images, targetUrl)

\* an update that puts targetUrl first without looking for it
WithTargetUrl_Always(data, targetUrl) ==
  LET images == GetKey(data, "images")
  IN  SetKey(data, "images", List(Unshift(images.items, targetUrl)))

\* if (!images.includes(targetUrl)) images.unshift(targetUrl)
WithTargetUrl(data, targetUrl) ==
  LET images == GetKey(data, "images")
  IN  IF ~ImagesIncludes(images, targetUrl)
      THEN SetKey(data, "images", List(Unshift(images.items, targetUrl)))
      ELSE data

\* an updatePost that hands stringify the whole text read in place of the body
UpdatedContents_WholeText(p, text) ==
  LET frontMatter == matter(text)
      data        == WithTargetUrl(WithImages(frontMatter.data), TargetUrl(p))
  IN  MatterStringify(text, data)

\* updatePost(p) throws before it writes, on the article file whose text is text
UpdateThrows(p, text) ==
  UnshiftThrows(WithImages(matter(text).data), TargetUrl(p))

\* the text updatePost(p) writes to the article file whose text is text
UpdatedContents(p, text) ==
  LET frontMatter == matter(text)
      data        == WithTargetUrl(WithImages(frontMatter.data), TargetUrl(p))
  IN  MatterStringify(frontMatter.content, data)

(***************************************************************************)
(* The state of a run of the script, of the file system it works on and of *)
(* the browser it drives.                                                  *)
(***************************************************************************)
VARIABLES
  \* the process
  run,                  \* the number of this run of the script
  pc,                   \* where main is
  skipImageGeneration,  \* main's three flags
  skipPostUpdate,
  force,
  posts,                \* what getAllPosts returned
  idx,                  \* the place in posts of the post the loop is at
  contents,             \* updatePost's contents, between its read and write
  err,                  \* the operation that threw, "none" before
  exitCode,             \* -1 while the process runs
  stderr,               \* what console.error printed, in order
  \* the browser
  browser,              \* "none", "open" or "closed"
  page,                 \* the one page of the browser
  \* the file system
  dirEntries,           \* what readdirSync(POSTS_DIR) lists
  files,                \* the text of every file of POSTS_DIR
  dirs,                 \* the posts with a directory public/static/blog/<post>
  cards,                \* per post, the run that wrote twitter-card.png, 0: none
  \* what happened, for the properties
  attempted,            \* the posts this run's loop reached
  gotoCalls,            \* page.goto calls of this run, per post
  shotCalls,            \* page.screenshot calls of this run, per post
  postWrites,           \* completed writes of the article file, this run
  fsAtStart,            \* the file system when this run started
  \* updatePost alone
  uPost, uOrig, uText, uOnce, uCount,
  \* getAllPosts alone
  pListing, pPosts, pDone,
  \* two runs at the same time
  other,                \* the process that is not running now, as a record
  \* delayRandom alone
  dRand, dWait, dDone,
  \* the reading of the arguments alone
  aArgs, aFlags, aDone

procVars == <<run, pc, skipImageGeneration, skipPostUpdate, force, posts,
              idx, contents, err, exitCode, stderr>>

browserVars == <<browser, page>>

fsVars == <<dirEntries, files, dirs, cards>>

histVars == <<attempted, gotoCalls, shotCalls, postWrites, fsAtStart>>

mainVars == <<procVars, browserVars, fsVars, histVars>>

updateVars == <<uPost, uOrig, uText, uOnce, uCount>>

postsVars == <<pListing, pPosts, pDone>>

raceVars == <<other>>

delayVars == <<dRand, dWait, dDone>>

argsVars == <<aArgs, aFlags, aDone>>

vars == <<mainVars, updateVars, postsVars, raceVars, delayVars, argsVars>>

(***************************************************************************)
(* The content directory and the command line of the runs.                 *)
(***************************************************************************)
FileA == <<"a", ".", "m", "d">>

FileB == <<"b", ".", "m", "d">>

FileN == <<"n", ".", "t", "x", "t">>

\* the names a content directory of the runs is made of
FileNames == {FileA, FileB, FileN}

\* the posts those names can give
Slugs == UNION {Range(getAllPosts(<<f>>)) : f \in FileNames}

\* a path that is not the card of any post
OtherImage == <<"/static/images/banner.png">>

\* an article without an image list, and one whose list holds another image
ArticleTexts ==
  { <<Delim, Entry("title", Str("t")), Delim, Body("p")>>,
    <<Delim, Entry("images", List(<<OtherImage>>)), Entry("draft", Str("false")),
      Delim, Body("p")>> }

\* the text of the file that is no article
NotesText == <<Body("notes")>>

ArgTokens == {"--skipImage", "--skipPostUpdate", "--force", "--verbose"}

\* path.join(POSTS_DIR, `${post}.md`), as the name of the file in POSTS_DIR
PostFile(post) == post \o MdExt

\* fileExists that finds no file
fileExists_Never(p) == FALSE

\* fileExists(targetImage): lstatSync does not throw
fileExists(p) == cards[p] # 0

NoPage == [open |-> FALSE, dark |-> FALSE, url |-> <<>>, idle |-> FALSE,
           hidden |-> {}, settled |-> FALSE]

FileSystem == [files |-> files, dirs |-> dirs, cards |-> cards]

(***************************************************************************)
(* Init: a content directory of up to MaxFiles files, no card generated    *)
(* yet, and the script just started.                                       *)
(***************************************************************************)
InitProc ==
  /\ run = 1
  /\ pc = "main"
  /\ skipImageGeneration = FALSE
  /\ skipPostUpdate = FALSE
  /\ force = FALSE
  /\ posts = <<>>
  /\ idx = 0
  /\ contents = <<>>
  /\ err = "none"
  /\ exitCode = -1
  /\ stderr = <<>>
  /\ browser = "none"
  /\ page = NoPage
  /\ attempted = {}
  /\ gotoCalls = [s \in Slugs |-> 0]
  /\ shotCalls = [s \in Slugs |-> 0]
  /\ postWrites = [s \in Slugs |-> 0]

InitUpdateIdle ==
  /\ uPost = <<>>
  /\ uOrig = <<>>
  /\ uText = <<>>
  /\ uOnce = <<>>
  /\ uCount = 0

InitPostsIdle ==
  /\ pListing = <<>>
  /\ pPosts = <<>>
  /\ pDone = FALSE

\* no second process
NoProcess == [run |-> 0, pc |-> "done"]

InitRaceIdle == other = NoProcess

InitDelayIdle ==
  /\ dRand = [base |-> 0, off |-> 0]
  /\ dWait = 0
  /\ dDone = FALSE

InitArgsIdle ==
  /\ aArgs = <<>>
  /\ aFlags = [skipImageGeneration |-> FALSE, skipPostUpdate |-> FALSE,
               force |-> FALSE]
  /\ aDone = FALSE

\* the parts of the state that a specification of one function leaves idle
InitIdle == InitRaceIdle /\ InitDelayIdle /\ InitArgsIdle

Init ==
  /\ InitProc
  /\ dirEntries \in SeqsNoDup(FileNames, MaxFiles)
  /\ files \in {f \in [Range(dirEntries) -> ArticleTexts \cup {NotesText}] :
                  \A name \in Range(dirEntries) :
                    (f[name] = NotesText) <=> (name = FileN)}
  /\ dirs = {}
  /\ cards = [s \in Slugs |-> 0]
  /\ fsAtStart = [files |-> files, dirs |-> {}, cards |-> [s \in Slugs |-> 0]]
  /\ InitUpdateIdle
  /\ InitPostsIdle
  /\ InitIdle

(***************************************************************************)
(* main(args), one action per awaited or synchronous step.  An operation   *)
(* of the browser or of the file system succeeds or throws; whatever       *)
(* throws inside main rejects main's promise, which only the handler at    *)
(* the bottom of the script catches.                                       *)
(***************************************************************************)
post == posts[idx]

\* an exception that main swallows: it goes on to list the posts
Throw_Resume(operation) ==
  /\ pc' = "getAllPosts"
  /\ err' = operation

\* an exception leaves main: the promise main returned is rejected
Throw(operation) ==
  /\ pc' = "catch"
  /\ err' = operation

\* a pass of the loop that does not move on to the next post
Continue_Stay ==
  /\ pc' = "loop"
  /\ idx' = idx

\* a pass of the loop that leaves out the post after this one
Continue_SkipOne ==
  /\ pc' = "loop"
  /\ idx' = idx + 2

\* the end of one pass of the for loop over posts
Continue ==
  /\ pc' = "loop"
  /\ idx' = idx + 1

\* a pass that switches the flag that a names, in place of setting it
ReadArg_Toggle(flags, a) ==
  IF a = "--skipImage"
    THEN [flags EXCEPT !.skipImageGeneration = ~flags.skipImageGeneration]
  ELSE IF a = "--skipPostUpdate"
    THEN [flags EXCEPT !.skipPostUpdate = ~flags.skipPostUpdate]
  ELSE IF a = "--force" THEN [flags EXCEPT !.force = ~flags.force]
  ELSE flags

\* one pass of  for (const a of args): the flag that a names is set
ReadArg(flags, a) ==
  IF a = "--skipImage" THEN [flags EXCEPT !.skipImageGeneration = TRUE]
  ELSE IF a = "--skipPostUpdate" THEN [flags EXCEPT !.skipPostUpdate = TRUE]
  ELSE IF a = "--force" THEN [flags EXCEPT !.force = TRUE]
  ELSE flags

\* the loop over the arguments that are left, from the flags set so far
RECURSIVE ReadArgs(_, _)
ReadArgs(flags, rest) ==
  IF rest = <<>> THEN flags ELSE ReadArgs(ReadArg(flags, Head(rest)), Tail(rest))

\* main's three flags after its loop over args: all false at first
ParseArgs(a) ==
  ReadArgs([skipImageGeneration |-> FALSE, skipPostUpdate |-> FALSE,
            force |-> FALSE], a)

\* main(args) up to its first await: the flags are read from the arguments
Main ==
  /\ pc = "main"
  /\ \E a \in SeqsUpTo(ArgTokens, MaxArgs) :
       /\ skipImageGeneration' = ParseArgs(a).skipImageGeneration
       /\ skipPostUpdate' = ParseArgs(a).skipPostUpdate
       /\ force' = ParseArgs(a).force
  /\ pc' = "launch"
  /\ UNCHANGED <<run, posts, idx, contents, err, exitCode>>
  /\ UNCHANGED <<browserVars, fsVars, histVars, updateVars, postsVars, raceVars, delayVars, argsVars>>
  /\ UNCHANGED stderr

\* const browser = await puppeteer.launch(...)
Launch ==
  /\ pc = "launch"
  /\ \E ok \in BOOLEAN :
       IF ok THEN /\ browser' = "open"
                  /\ pc' = "newPage"
                  /\ err' = err
             ELSE /\ Throw("launch")
                  /\ browser' = browser
  /\ UNCHANGED <<run, skipImageGeneration, skipPostUpdate, force, posts,
                 idx, contents, exitCode, page>>
  /\ UNCHANGED <<fsVars, histVars, updateVars, postsVars, raceVars, delayVars, argsVars>>
  /\ UNCHANGED stderr

\* const page = await browser.newPage()
NewPage ==
  /\ pc = "newPage"
  /\ \E ok \in BOOLEAN :
       IF ok THEN /\ page' = [NoPage EXCEPT !.open = TRUE]
                  /\ pc' = "emulate"
                  /\ err' = err
             ELSE /\ Throw("newPage")
                  /\ page' = page
  /\ UNCHANGED <<run, skipImageGeneration, skipPostUpdate, force, posts,
                 idx, contents, exitCode, browser>>
  /\ UNCHANGED <<fsVars, histVars, updateVars, postsVars, raceVars, delayVars, argsVars>>
  /\ UNCHANGED stderr

\* a start that leaves the colour scheme of the page as it is
EmulateMediaFeatures_Skipped ==
  /\ pc = "emulate"
  /\ pc' = "getAllPosts"
  /\ UNCHANGED <<run, skipImageGeneration, skipPostUpdate, force, posts,
                 idx, contents, err, exitCode, stderr>>
  /\ UNCHANGED <<browserVars, fsVars, histVars, updateVars, postsVars>>
  /\ UNCHANGED <<raceVars, delayVars, argsVars>>

\* await page.emulateMediaFeatures([{ name: 'prefers-color-scheme', value: 'dark' }])
EmulateMediaFeatures ==
  /\ pc = "emulate"
  /\ \E ok \in BOOLEAN :
       IF ok THEN /\ page' = [page EXCEPT !.dark = TRUE]
                  /\ pc' = "getAllPosts"
                  /\ err' = err
             ELSE /\ Throw("emulateMediaFeatures")
                  /\ page' = page
  /\ UNCHANGED <<run, skipImageGeneration, skipPostUpdate, force, posts,
                 idx, contents, exitCode, browser>>
  /\ UNCHANGED <<fsVars, histVars, updateVars, postsVars, raceVars, delayVars, argsVars>>
  /\ UNCHANGED stderr

\* const posts = getAllPosts(): readdirSync throws when POSTS_DIR cannot be read
GetAllPosts ==
  /\ pc = "getAllPosts"
  /\ \E ok \in BOOLEAN :
       IF ok THEN /\ posts' = getAllPosts(dirEntries)
                  /\ idx' = 1
                  /\ pc' = "loop"
                  /\ err' = err
             ELSE /\ Throw("readdirSync")
                  /\ UNCHANGED <<posts, idx>>
  /\ UNCHANGED <<run, skipImageGeneration, skipPostUpdate, force,
                 contents, exitCode>>
  /\ UNCHANGED <<browserVars, fsVars, histVars, updateVars, postsVars, raceVars, delayVars, argsVars>>
  /\ UNCHANGED stderr

\* a gate that forgets the force flag
GateSkips_NoForce(p) == fileExists(p)

\* if (fileExists(targetImage) && !force) continue
GateSkips(p) == fileExists(p) /\ ~force

\* an image phase that the other flag turns off as well
GenerateImage_Coupled == ~skipImageGeneration /\ ~skipPostUpdate

\* an image phase that --force turns back on
GenerateImage_Forced == ~skipImageGeneration \/ force

\* if (!skipImageGeneration) { open, prepare, delay, screenshot }
GenerateImage == ~skipImageGeneration

\* a metadata phase that no flag turns off
UpdateMetadata_Always == TRUE

\* if (!skipPostUpdate) { updatePost(post) }
UpdateMetadata == ~skipPostUpdate

\* a gate that skips the image phase only: the metadata phase still runs
SkipGate_UpdateAnyway ==
  /\ pc = "loop"
  /\ idx <= Len(posts)
  /\ attempted' = attempted \cup {post}
  /\ IF GateSkips(post)
     THEN IF UpdateMetadata THEN pc' = "readPost" /\ idx' = idx ELSE Continue
     ELSE IF GenerateImage THEN pc' = "goto" /\ idx' = idx
     ELSE IF UpdateMetadata THEN pc' = "readPost" /\ idx' = idx
     ELSE Continue
  /\ UNCHANGED <<run, skipImageGeneration, skipPostUpdate, force, posts,
                 contents, err, exitCode>>
  /\ UNCHANGED <<gotoCalls, shotCalls, postWrites, fsAtStart>>
  /\ UNCHANGED <<browserVars, fsVars, updateVars, postsVars, raceVars, delayVars, argsVars>>
  /\ UNCHANGED stderr

\* the head of the loop body: the gate, and the way to the first enabled phase
SkipGate ==
  /\ pc = "loop"
  /\ idx <= Len(posts)
  /\ attempted' = attempted \cup {post}
  /\ IF GateSkips(post) THEN Continue
     ELSE IF GenerateImage THEN pc' = "goto" /\ idx' = idx
     ELSE IF UpdateMetadata THEN pc' = "readPost" /\ idx' = idx
     ELSE Continue
  /\ UNCHANGED <<run, skipImageGeneration, skipPostUpdate, force, posts,
                 contents, err, exitCode>>
  /\ UNCHANGED <<gotoCalls, shotCalls, postWrites, fsAtStart>>
  /\ UNCHANGED <<browserVars, fsVars, updateVars, postsVars, raceVars, delayVars, argsVars>>
  /\ UNCHANGED stderr

\* a navigation that is tried again when it fails
Goto_Retry ==
  /\ pc = "goto"
  /\ gotoCalls' = [gotoCalls EXCEPT ![post] = @ + 1]
  /\ \E ok \in BOOLEAN :
       IF ok THEN /\ page' = [page EXCEPT !.url = post, !.idle = FALSE,
                                            !.hidden = {}, !.settled = FALSE]
                  /\ pc' = "waitForNetworkIdle"
             ELSE /\ page' = page
                  /\ pc' = "goto"
  /\ UNCHANGED <<run, skipImageGeneration, skipPostUpdate, force, posts,
                 idx, contents, err, exitCode, stderr, browser>>
  /\ UNCHANGED <<attempted, shotCalls, postWrites, fsAtStart>>
  /\ UNCHANGED <<fsVars, updateVars, postsVars, raceVars, delayVars, argsVars>>

\* openPostInBrowser: await page.goto(`http://localhost:3000/${post}`)
Goto ==
  /\ pc = "goto"
  /\ gotoCalls' = [gotoCalls EXCEPT ![post] = @ + 1]
  /\ \E ok \in BOOLEAN :
       IF ok THEN /\ page' = [page EXCEPT !.url = post, !.idle = FALSE,
                                            !.hidden = {}, !.settled = FALSE]
                  /\ pc' = "waitForNetworkIdle"
                  /\ err' = err
             ELSE /\ Throw("goto")
                  /\ page' = page
  /\ UNCHANGED <<run, skipImageGeneration, skipPostUpdate, force, posts,
                 idx, contents, exitCode, browser>>
  /\ UNCHANGED <<attempted, shotCalls, postWrites, fsAtStart>>
  /\ UNCHANGED <<fsVars, updateVars, postsVars, raceVars, delayVars, argsVars>>
  /\ UNCHANGED stderr

\* an openPostInBrowser that does not wait for the network to be idle
WaitForNetworkIdle_Skipped ==
  /\ pc = "waitForNetworkIdle"
  /\ pc' = "header"
  /\ UNCHANGED <<run, skipImageGeneration, skipPostUpdate, force, posts,
                 idx, contents, err, exitCode, stderr>>
  /\ UNCHANGED <<browserVars, fsVars, histVars, updateVars, postsVars, raceVars, delayVars, argsVars>>

\* openPostInBrowser: await page.waitForNetworkIdle()
WaitForNetworkIdle ==
  /\ pc = "waitForNetworkIdle"
  /\ \E ok \in BOOLEAN :
       IF ok THEN /\ page' = [page EXCEPT !.idle = TRUE]
                  /\ pc' = "header"
                  /\ err' = err
             ELSE /\ Throw("waitForNetworkIdle")
                  /\ page' = page
  /\ UNCHANGED <<run, skipImageGeneration, skipPostUpdate, force, posts,
                 idx, contents, exitCode, browser>>
  /\ UNCHANGED <<fsVars, histVars, updateVars, postsVars, raceVars, delayVars, argsVars>>
  /\ UNCHANGED stderr

\* a page preparation that goes on to the delay after the first element
AfterElement_SkipRest(element) == "delay"

\* the step after hiding an element
AfterElement(element) ==
  CASE element = "header" -> "time"
    [] element = "time"   -> "prose"
    [] element = "prose"  -> "delay"

\* removeUnnecessaryElements: const e = await page.$(selector);
\* await e.evaluate(node => node.style = 'visibility:hidden').
\* page.$ gives null for a selector that matches nothing, and null.evaluate throws
RemoveUnnecessaryElement ==
  /\ pc \in {"header", "time", "prose"}
  /\ \E found \in BOOLEAN :
       IF found THEN /\ page' = [page EXCEPT !.hidden = @ \cup {pc}]
                     /\ pc' = AfterElement(pc)
                     /\ err' = err
                ELSE /\ Throw(pc)
                     /\ page' = page
  /\ UNCHANGED <<run, skipImageGeneration, skipPostUpdate, force, posts,
                 idx, contents, exitCode, browser>>
  /\ UNCHANGED <<fsVars, histVars, updateVars, postsVars, raceVars, delayVars, argsVars>>
  /\ UNCHANGED stderr

\* await delayRandom(1000, 2000)
DelayRandom ==
  /\ pc = "delay"
  /\ page' = [page EXCEPT !.settled = TRUE]
  /\ pc' = "mkdirp"
  /\ UNCHANGED <<run, skipImageGeneration, skipPostUpdate, force, posts,
                 idx, contents, err, exitCode, browser>>
  /\ UNCHANGED <<fsVars, histVars, updateVars, postsVars, raceVars, delayVars, argsVars>>
  /\ UNCHANGED stderr

\* screenshot: mkdirp.sync(targetDir)
Mkdirp ==
  /\ pc = "mkdirp"
  /\ \E ok \in BOOLEAN :
       IF ok THEN /\ dirs' = dirs \cup {post}
                  /\ pc' = "screenshot"
                  /\ err' = err
             ELSE /\ Throw("mkdirp")
                  /\ dirs' = dirs
  /\ UNCHANGED <<run, skipImageGeneration, skipPostUpdate, force, posts,
                 idx, contents, exitCode>>
  /\ UNCHANGED <<dirEntries, files, cards>>
  /\ UNCHANGED <<browserVars, histVars, updateVars, postsVars, raceVars, delayVars, argsVars>>
  /\ UNCHANGED stderr

\* a capture whose failure is passed over: the run goes on to the metadata
Screenshot_IgnoreFailure ==
  /\ pc = "screenshot"
  /\ shotCalls' = [shotCalls EXCEPT ![post] = @ + 1]
  /\ \E ok \in BOOLEAN :
       /\ cards' = IF ok THEN [cards EXCEPT ![post] = run] ELSE cards
       /\ IF UpdateMetadata THEN pc' = "readPost" /\ idx' = idx
          ELSE Continue
       /\ err' = err
  /\ UNCHANGED <<run, skipImageGeneration, skipPostUpdate, force, posts,
                 contents, exitCode>>
  /\ UNCHANGED <<dirEntries, files, dirs>>
  /\ UNCHANGED <<attempted, gotoCalls, postWrites, fsAtStart>>
  /\ UNCHANGED <<browserVars, updateVars, postsVars, raceVars, delayVars, argsVars>>
  /\ UNCHANGED stderr

\* screenshot: await page.screenshot({clip, path: targetImage}), and then
\* main's  if (!skipPostUpdate) updatePost(post)
Screenshot ==
  /\ pc = "screenshot"
  /\ shotCalls' = [shotCalls EXCEPT ![post] = @ + 1]
  /\ \E ok \in BOOLEAN :
       IF ok THEN /\ cards' = [cards EXCEPT ![post] = run]
                  /\ IF UpdateMetadata THEN pc' = "readPost" /\ idx' = idx
                     ELSE Continue
                  /\ err' = err
             ELSE /\ Throw("screenshot")
                  /\ UNCHANGED <<cards, idx>>
  /\ UNCHANGED <<run, skipImageGeneration, skipPostUpdate, force, posts,
                 contents, exitCode>>
  /\ UNCHANGED <<dirEntries, files, dirs>>
  /\ UNCHANGED <<attempted, gotoCalls, postWrites, fsAtStart>>
  /\ UNCHANGED <<browserVars, updateVars, postsVars, raceVars, delayVars, argsVars>>
  /\ UNCHANGED stderr

\* updatePost: const contents = fs.readFileSync(postFile, 'utf-8')
ReadPost ==
  /\ pc = "readPost"
  /\ \E ok \in BOOLEAN :
       IF ok THEN /\ contents' = files[PostFile(post)]
                  /\ pc' = "writePost"
                  /\ err' = err
             ELSE /\ Throw("readFileSync")
                  /\ contents' = contents
  /\ UNCHANGED <<run, skipImageGeneration, skipPostUpdate, force, posts,
                 idx, exitCode>>
  /\ UNCHANGED <<browserVars, fsVars, histVars, updateVars, postsVars, raceVars, delayVars, argsVars>>
  /\ UNCHANGED stderr

\* what a write of text that fails can leave of the file: the file as it was,
\* or the start of text, short of its end
FailedWrite(old, text) ==
  {old} \cup {SubSeq(text, 1, n) : n \in 0..(Len(text) - 1)}

\* updatePost: the front matter gets the card's path and
\* fs.writeFileSync(postFile, matter.stringify(content, data), 'utf-8');
\* nothing is written when images.unshift throws
WritePost ==
  /\ pc = "writePost"
  /\ IF UpdateThrows(post, contents)
     THEN /\ Throw("unshift")
          /\ UNCHANGED <<files, postWrites, idx>>
     ELSE \E text \in {UpdatedContents(post, contents)} :
            \E ok \in BOOLEAN :
              IF ok THEN /\ files' = [files EXCEPT ![PostFile(post)] = text]
                         /\ postWrites' = [postWrites EXCEPT ![post] = @ + 1]
                         /\ Continue
                         /\ err' = err
                    ELSE /\ \E left \in FailedWrite(files[PostFile(post)], text) :
                              files' = [files EXCEPT ![PostFile(post)] = left]
                         /\ Throw("writeFileSync")
                         /\ UNCHANGED <<postWrites, idx>>
  /\ contents' = <<>>
  /\ UNCHANGED <<run, skipImageGeneration, skipPostUpdate, force, posts,
                 exitCode>>
  /\ UNCHANGED <<dirEntries, dirs, cards>>
  /\ UNCHANGED <<attempted, gotoCalls, shotCalls, fsAtStart>>
  /\ UNCHANGED <<browserVars, updateVars, postsVars, raceVars, delayVars, argsVars>>
  /\ UNCHANGED stderr

\* the loop is over: await browser.close(), main returns and the process ends
Close ==
  /\ pc = "loop"
  /\ idx > Len(posts)
  /\ \E ok \in BOOLEAN :
       IF ok THEN /\ browser' = "closed"
                  /\ page' = [page EXCEPT !.open = FALSE]
                  /\ pc' = "done"
                  /\ exitCode' = 0
                  /\ err' = err
             ELSE /\ Throw("close")
                  /\ UNCHANGED <<browser, page, exitCode>>
  /\ UNCHANGED <<run, skipImageGeneration, skipPostUpdate, force, posts,
                 idx, contents>>
  /\ UNCHANGED <<fsVars, histVars, updateVars, postsVars, raceVars, delayVars, argsVars>>
  /\ UNCHANGED stderr

\* main(process.argv.slice(2)).catch((e) => { console.error(e); process.exit(1) })
Catch ==
  /\ pc = "catch"
  /\ pc' = "done"
  /\ stderr' = Append(stderr, err)
  /\ exitCode' = 1
  /\ UNCHANGED <<run, skipImageGeneration, skipPostUpdate, force, posts,
                 idx, contents, err>>
  /\ UNCHANGED <<browserVars, fsVars, histVars, updateVars, postsVars, raceVars, delayVars, argsVars>>

\* the script is started again, over the file system the run before left
NextRun ==
  /\ pc = "done"
  /\ run < MaxRuns
  /\ run' = run + 1
  /\ pc' = "main"
  /\ skipImageGeneration' = FALSE
  /\ skipPostUpdate' = FALSE
  /\ force' = FALSE
  /\ posts' = <<>>
  /\ idx' = 0
  /\ contents' = <<>>
  /\ err' = "none"
  /\ exitCode' = -1
  /\ stderr' = <<>>
  /\ browser' = "none"
  /\ page' = NoPage
  /\ attempted' = {}
  /\ gotoCalls' = [s \in Slugs |-> 0]
  /\ shotCalls' = [s \in Slugs |-> 0]
  /\ postWrites' = [s \in Slugs |-> 0]
  /\ fsAtStart' = FileSystem
  /\ UNCHANGED <<fsVars, updateVars, postsVars, raceVars, delayVars, argsVars>>

Next ==
  \/ Main
  \/ Launch
  \/ NewPage
  \/ EmulateMediaFeatures
  \/ GetAllPosts
  \/ SkipGate
  \/ Goto
  \/ WaitForNetworkIdle
  \/ RemoveUnnecessaryElement
  \/ DelayRandom
  \/ Mkdirp
  \/ Screenshot
  \/ ReadPost
  \/ WritePost
  \/ Close
  \/ Catch
  \/ NextRun

Spec == Init /\ [][Next]_vars

\* the steps of one run of the script
Step ==
  \/ Main
  \/ Launch
  \/ NewPage
  \/ EmulateMediaFeatures
  \/ GetAllPosts
  \/ SkipGate
  \/ Goto
  \/ WaitForNetworkIdle
  \/ RemoveUnnecessaryElement
  \/ DelayRandom
  \/ Mkdirp
  \/ Screenshot
  \/ ReadPost
  \/ WritePost
  \/ Close
  \/ Catch

\* one run in which every call returns or throws and every awaited promise
\* is resolved or rejected in the end, so that the step that is due is taken
SpecLive == Init /\ [][Step]_vars /\ WF_vars(Step)

(***************************************************************************)
(* updatePost alone: an article file of any shape, and the update applied  *)
(* to it up to MaxApply times.                                             *)
(***************************************************************************)
\* the values an images key is given: null, or a list of up to MaxImages
\* paths that holds the post's own card path at most once (updatePost never
\* adds a second one)
ImageValues(p) ==
  {Null} \cup
  {List(l) : l \in {m \in SeqsUpTo({TargetUrl(s) : s \in Slugs} \cup {OtherImage},
                                   MaxImages) :
                      Cardinality({i \in 1..Len(m) : m[i] = TargetUrl(p)}) <= 1}}

\* front matter blocks: without an images key, and with one in any place
FrontMatters(p) ==
  {<<>>, <<Entry("title", Str("t"))>>} \cup
  UNION {{ <<Entry("images", v)>>,
           <<Entry("title", Str("t")), Entry("images", v)>>,
           <<Entry("images", v), Entry("title", Str("t"))>>,
           <<Entry("title", Str("t")), Entry("images", v),
             Entry("draft", Str("false"))>> } : v \in ImageValues(p)}

\* bodies: empty, text, and text with a "---" rule in it
Bodies ==
  {<<>>, <<Body("p")>>, <<Body("p"), Body("q")>>, <<Body("p"), Delim, Body("q")>>}

\* article files: with a front matter block, and without one
UpdateTexts(p) ==
  {<<Delim>> \o fm \o <<Delim>> \o b : fm \in FrontMatters(p), b \in Bodies}
    \cup {b \in Bodies : b = <<>> \/ b[1] # Delim}

InitUpdate ==
  /\ InitProc
  /\ dirEntries = <<>>
  /\ files = <<>>
  /\ dirs = {}
  /\ cards = [s \in Slugs |-> 0]
  /\ fsAtStart = [files |-> <<>>, dirs |-> {}, cards |-> [s \in Slugs |-> 0]]
  /\ InitPostsIdle
  /\ InitIdle
  /\ uPost \in Slugs
  /\ uOrig \in UpdateTexts(uPost)
  /\ uText = uOrig
  /\ uOnce = uOrig
  /\ uCount = 0

\* updatePost(uPost) on the file whose text is uText
ApplyUpdatePost ==
  /\ uCount < MaxApply
  /\ uText' = IF UpdateThrows(uPost, uText) THEN uText
              ELSE UpdatedContents(uPost, uText)
  /\ uOnce' = IF uCount = 0 THEN uText' ELSE uOnce
  /\ uCount' = uCount + 1
  /\ UNCHANGED <<uPost, uOrig>>
  /\ UNCHANGED <<mainVars, postsVars, raceVars, delayVars, argsVars>>

NextUpdate == ApplyUpdatePost

SpecUpdate == InitUpdate /\ [][NextUpdate]_vars

\* strings that are not the card path of p but are close to it: the path
\* with more after it, with more before it, and the path short of its end
NearPaths(p) ==
  { TargetUrl(p) \o <<"?v=2">>,
    <<"https://boopathi.blog">> \o TargetUrl(p),
    SubSeq(TargetUrl(p), 1, Len(TargetUrl(p)) - 1) }

\* the values an images key is given when strings close to the card path are
\* around: a list of up to MaxImages of them and of the path itself, or one
\* string in the place of the list
NearImageValues(p) ==
  {List(l) : l \in {m \in SeqsUpTo(NearPaths(p) \cup {TargetUrl(p)}, MaxImages) :
                      Cardinality({i \in 1..Len(m) : m[i] = TargetUrl(p)}) <= 1}}
    \cup {Str(x) : x \in NearPaths(p) \cup {TargetUrl(p), OtherImage}}

\* article files with such an images key
NearTexts(p) ==
  {<<Delim, Entry("title", Str("t")), Entry("images", v), Delim, Body("p")>> :
     v \in NearImageValues(p)}

InitMembership ==
  /\ InitProc
  /\ dirEntries = <<>>
  /\ files = <<>>
  /\ dirs = {}
  /\ cards = [s \in Slugs |-> 0]
  /\ fsAtStart = [files |-> <<>>, dirs |-> {}, cards |-> [s \in Slugs |-> 0]]
  /\ InitPostsIdle
  /\ InitIdle
  /\ uPost \in Slugs
  /\ uOrig \in NearTexts(uPost)
  /\ uText = uOrig
  /\ uOnce = uOrig
  /\ uCount = 0

\* updatePost on article files whose images are close to the card path
SpecMembership == InitMembership /\ [][NextUpdate]_vars

(***************************************************************************)
(* getAllPosts alone: a directory listing of any names.                    *)
(***************************************************************************)
ListingNames ==
  { FileA, FileB, FileN,
    <<".", "m", "d">>,
    <<"a", ".", "b", ".", "m", "d">>,
    <<"a", ".", "m", "d", ".", "o">>,
    <<"a", ".", "m", "d", "x">>,
    <<"m", "d">>,
    <<"a", ".">> }

InitPosts ==
  /\ InitProc
  /\ dirEntries = <<>>
  /\ files = <<>>
  /\ dirs = {}
  /\ cards = [s \in Slugs |-> 0]
  /\ fsAtStart = [files |-> <<>>, dirs |-> {}, cards |-> [s \in Slugs |-> 0]]
  /\ InitUpdateIdle
  /\ InitIdle
  /\ pListing \in SeqsNoDup(ListingNames, MaxListing)
  /\ pPosts = <<>>
  /\ pDone = FALSE

\* getAllPosts() over the directory pListing
ListPosts ==
  /\ ~pDone
  /\ pPosts' = getAllPosts(pListing)
  /\ pDone' = TRUE
  /\ UNCHANGED pListing
  /\ UNCHANGED <<mainVars, updateVars, raceVars, delayVars, argsVars>>

NextPosts == ListPosts

SpecPosts == InitPosts /\ [][NextPosts]_vars

(***************************************************************************)
(* Two runs of the script at the same time, as two processes over one      *)
(* content directory and one output directory.  One process runs at a      *)
(* time and takes the steps of main; the state of the other one waits in   *)
(* other.  A step is one call of the browser or of the file system, and    *)
(* the operating system may switch between the processes after any step.   *)
(* The card of a post records the process that wrote it.                   *)
(***************************************************************************)
\* the process that is running, as a record
Self ==
  [run |-> run, pc |-> pc, skipImageGeneration |-> skipImageGeneration,
   skipPostUpdate |-> skipPostUpdate, force |-> force, posts |-> posts,
   idx |-> idx, contents |-> contents, err |-> err, exitCode |-> exitCode,
   stderr |-> stderr, browser |-> browser, page |-> page,
   attempted |-> attempted, gotoCalls |-> gotoCalls, shotCalls |-> shotCalls,
   postWrites |-> postWrites, fsAtStart |-> fsAtStart]

\* the two processes
Both == {Self, other}

InitRace ==
  /\ InitProc
  /\ dirEntries = <<FileA>>
  /\ files \in [{FileA} -> ArticleTexts]
  /\ dirs = {}
  /\ cards = [s \in Slugs |-> 0]
  /\ fsAtStart = [files |-> files, dirs |-> {}, cards |-> [s \in Slugs |-> 0]]
  /\ InitUpdateIdle
  /\ InitPostsIdle
  /\ other = [Self EXCEPT !.run = 2]
  /\ InitDelayIdle
  /\ InitArgsIdle

\* the process that was waiting runs, and the one that ran waits
Schedule ==
  /\ other.pc # "done"
  /\ other' = Self
  /\ run' = other.run
  /\ pc' = other.pc
  /\ skipImageGeneration' = other.skipImageGeneration
  /\ skipPostUpdate' = other.skipPostUpdate
  /\ force' = other.force
  /\ posts' = other.posts
  /\ idx' = other.idx
  /\ contents' = other.contents
  /\ err' = other.err
  /\ exitCode' = other.exitCode
  /\ stderr' = other.stderr
  /\ browser' = other.browser
  /\ page' = other.page
  /\ attempted' = other.attempted
  /\ gotoCalls' = other.gotoCalls
  /\ shotCalls' = other.shotCalls
  /\ postWrites' = other.postWrites
  /\ fsAtStart' = other.fsAtStart
  /\ UNCHANGED <<fsVars, updateVars, postsVars, delayVars, argsVars>>

NextRace ==
  \/ Main
  \/ Launch
  \/ NewPage
  \/ EmulateMediaFeatures
  \/ GetAllPosts
  \/ SkipGate
  \/ Goto
  \/ WaitForNetworkIdle
  \/ RemoveUnnecessaryElement
  \/ DelayRandom
  \/ Mkdirp
  \/ Screenshot
  \/ ReadPost
  \/ WritePost
  \/ Close
  \/ Catch
  \/ Schedule

SpecRace == InitRace /\ [][NextRace]_vars

(***************************************************************************)
(* delayRandom alone.  Math.random() gives a double that is a multiple of  *)
(* 2^-53 in [0, 1); the product and the sum of line 121 are rounded to the *)
(* nearest double, ties to the even mantissa.  A double next to an integer *)
(* is written as base + off * 2^-53, with off small against the gap        *)
(* between doubles there; the values of Math.random() taken are the        *)
(* MaxRandom + 1 lowest and the MaxRandom highest.                         *)
(***************************************************************************)
MaxRandom == 60

\* the values of Math.random(): k * 2^-53 and 1 - k * 2^-53
RandomValues ==
  {[base |-> 0, off |-> k] : k \in 0..MaxRandom} \cup
  {[base |-> 1, off |-> -k] : k \in 1..MaxRandom}

\* the least power of two that is at least n
RECURSIVE Pow2Ceil(_)
Pow2Ceil(n) == IF n <= 1 THEN 1 ELSE 2 * Pow2Ceil((n + 1) \div 2)

\* the greatest power of two that is at most n
RECURSIVE Pow2Floor(_)
Pow2Floor(n) == IF n <= 1 THEN 1 ELSE 2 * Pow2Floor(n \div 2)

\* the gap between the doubles around x, in units of 2^-53: 2^-52 times the
\* power of two at or below x (x just below base when off is negative)
UlpUnits(x) ==
  IF x.off < 0 THEN Pow2Ceil(x.base)
  ELSE IF x.base = 0 THEN 1
  ELSE 2 * Pow2Floor(x.base)

\* n / d rounded to the nearest integer, a tie going to the even one
RoundHalfEven(n, d) ==
  LET q   == n \div d
      rem == n % d
  IN  IF 2 * rem < d THEN q
      ELSE IF 2 * rem > d THEN q + 1
      ELSE IF q % 2 = 0 THEN q ELSE q + 1

\* the double nearest to x
RoundDouble(x) ==
  [base |-> x.base, off |-> UlpUnits(x) * RoundHalfEven(x.off, UlpUnits(x))]

\* x * n in doubles, for an integer n
Times(x, n) == RoundDouble([base |-> x.base * n, off |-> x.off * n])

\* x + n in doubles, for an integer n
Plus(x, n) == RoundDouble([base |-> x.base + n, off |-> x.off])

\* Math.floor(x)
Floor(x) == IF x.off < 0 THEN x.base - 1 ELSE x.base

\* delayRandom(min, max): Math.floor(Math.random() * (max - min + 1) + min),
\* the number of milliseconds the timer is set to
delayRandom(min, max, random) == Floor(Plus(Times(random, max - min + 1), min))

InitDelay ==
  /\ InitProc
  /\ dirEntries = <<>>
  /\ files = <<>>
  /\ dirs = {}
  /\ cards = [s \in Slugs |-> 0]
  /\ fsAtStart = [files |-> <<>>, dirs |-> {}, cards |-> [s \in Slugs |-> 0]]
  /\ InitUpdateIdle
  /\ InitPostsIdle
  /\ InitRaceIdle
  /\ InitArgsIdle
  /\ dRand \in RandomValues
  /\ dWait = 0
  /\ dDone = FALSE

\* await delayRandom(1000, 2000), with Math.random() giving dRand
ApplyDelayRandom ==
  /\ ~dDone
  /\ dWait' = delayRandom(1000, 2000, dRand)
  /\ dDone' = TRUE
  /\ UNCHANGED dRand
  /\ UNCHANGED <<mainVars, updateVars, postsVars, raceVars, argsVars>>

NextDelay == ApplyDelayRandom

SpecDelay == InitDelay /\ [][NextDelay]_vars

(***************************************************************************)
(* The reading of the arguments alone: main's loop over args, on every     *)
(* sequence of up to MaxArgs arguments.                                    *)
(***************************************************************************)
InitArgs ==
  /\ InitProc
  /\ dirEntries = <<>>
  /\ files = <<>>
  /\ dirs = {}
  /\ cards = [s \in Slugs |-> 0]
  /\ fsAtStart = [files |-> <<>>, dirs |-> {}, cards |-> [s \in Slugs |-> 0]]
  /\ InitUpdateIdle
  /\ InitPostsIdle
  /\ InitRaceIdle
  /\ InitDelayIdle
  /\ aArgs \in SeqsUpTo(ArgTokens, MaxArgs)
  /\ aFlags = [skipImageGeneration |-> FALSE, skipPostUpdate |-> FALSE,
               force |-> FALSE]
  /\ aDone = FALSE

\* main(aArgs), from its three declarations to the end of its loop over args
ApplyParseArgs ==
  /\ ~aDone
  /\ aFlags' = ParseArgs(aArgs)
  /\ aDone' = TRUE
  /\ UNCHANGED aArgs
  /\ UNCHANGED <<mainVars, updateVars, postsVars, raceVars, delayVars>>

NextArgs == ApplyParseArgs

SpecArgs == InitArgs /\ [][NextArgs]_vars

(***************************************************************************)
(* Properties.                                                             *)
(***************************************************************************)
\* the operations main performs for one article
PerArticleOperations ==
  {"goto", "waitForNetworkIdle", "header", "time", "prose", "mkdirp",
   "screenshot", "readFileSync", "unshift", "writeFileSync"}

\* the public path of the card of the article s: /static/blog/<s>/twitter-card.png
PublicCardPath(s) == <<"/static/blog/">> \o s \o <<"/twitter-card.png">>

\* the process has ended
Ended == pc = "done"

\* no flag was given to this run
NoFlags == ~skipImageGeneration /\ ~skipPostUpdate /\ ~force

\* the front matter of an article text, as updatePost's parser reads it
DataOf(text) == matter(text).data

\* the body of an article text
BodyOf(text) == matter(text).content

\* the image list of an article text, empty when it has none
ImageList(text) ==
  IF GetKey(DataOf(text), "images").kind = "list"
  THEN GetKey(DataOf(text), "images").items
  ELSE <<>>

\* how many entries of list are x
Occurrences(list, x) == Cardinality({i \in 1..Len(list) : list[i] = x})

\* the entries of the front matter other than the image list, in order
OtherEntries(text) == SelectSeq(DataOf(text), LAMBDA e : e.key # "images")

\* C1: per-article failure isolation.  When the processing of an article
\* fails, every article that comes after it in the queue is still attempted:
\* a run that has ended after a per-article failure has reached every post
\* that getAllPosts returned.
C1_FailureIsolation ==
  (Ended /\ err \in PerArticleOperations)
    => \A i \in 1..Len(posts) : posts[i] \in attempted

\* C2: exit code.  Once the browser has launched the process ends with exit
\* code zero after all articles were attempted; a non-zero exit never comes
\* from a per-article navigation, layout or file system failure.
C2_ExitCode ==
  (Ended /\ exitCode # 0) => err \notin PerArticleOperations

\* C3: idempotency of the pipeline.  A run captures a post at most once; a
\* first run without flags that ended with exit code zero has captured every
\* post once and written its card; and in a run without --force no page.goto
\* and no page.screenshot call is made for a post whose card existed when the
\* run started, and the card stays the file that the earlier run wrote.
C3_Idempotent ==
  /\ \A s \in Slugs : shotCalls[s] <= 1
  /\ (run = 1 /\ Ended /\ exitCode = 0 /\ NoFlags) =>
        \A s \in Range(getAllPosts(dirEntries)) :
          shotCalls[s] = 1 /\ cards[s] = 1
  /\ ~force => \A s \in Slugs :
        fsAtStart.cards[s] # 0 =>
          /\ gotoCalls[s] = 0
          /\ shotCalls[s] = 0
          /\ cards[s] = fsAtStart.cards[s]

\* C3's case: the second of two runs without flags has ended with exit code
\* zero; it found the cards and the card paths that the first run wrote for
\* the two articles, and made no call for them
C3_Witness ==
  /\ run = 2
  /\ Ended
  /\ exitCode = 0
  /\ NoFlags
  /\ Len(posts) = 2
  /\ attempted = Range(posts)
  /\ \A s \in Range(posts) :
       /\ fsAtStart.cards[s] = 1
       /\ cards[s] = 1
       /\ gotoCalls[s] = 0
       /\ shotCalls[s] = 0
       /\ files[PostFile(s)] = fsAtStart.files[PostFile(s)]
       /\ Occurrences(ImageList(files[PostFile(s)]), PublicCardPath(s)) = 1

C6_UpdateResult ==
  uCount = 1 =>
    LET old == GetKey(DataOf(uOrig), "images")
        url == PublicCardPath(uPost)
    IN  /\ GetKey(DataOf(uText), "images").kind = "list"
        /\ old \in {Undefined, Null} => ImageList(uText) = <<url>>
        /\ (old.kind = "list" /\ Occurrences(old.items, url) = 0) =>
              ImageList(uText) = <<url>> \o old.items
        /\ (old.kind = "list" /\ Occurrences(old.items, url) > 0) =>
              /\ ImageList(uText) = old.items
              /\ DataOf(uText) = DataOf(uOrig)

\* C6's case: the card's path was put before the two other images of a list
C6_Witness ==
  /\ uCount = 1
  /\ GetKey(DataOf(uOrig), "images") = List(<<OtherImage, PublicCardPath(<<"b">>)>>)
  /\ uPost = <<"a">>
  /\ ImageList(uText) = <<PublicCardPath(<<"a">>), OtherImage, PublicCardPath(<<"b">>)>>

\* the loop has completed its pass for post s
Passed(s) == \E i \in 1..Len(posts) : posts[i] = s /\ i < idx

\* C7 as stated: in a run with --force, every post whose card existed when
\* the run started and whose pass of the loop has completed was navigated to
\* and captured, and its card was overwritten, whatever the other flags are.
C7_ForceOverwritesAlways ==
  force =>
    \A s \in Slugs :
      (Passed(s) /\ fsAtStart.cards[s] # 0) =>
        /\ gotoCalls[s] = 1
        /\ shotCalls[s] = 1
        /\ cards[s] = run

\* C7, amended: --force bypasses the existence check whatever the other
\* flags are, and the phases that are not skipped then run for every post the
\* loop reaches, with or without a card.  In a run with --force and without
\* --skipImage every post reached is navigated to, and once its pass has
\* completed it was captured once and its card is the one this run wrote;
\* with --skipImage no navigation and no capture is made and the cards stay
\* as they were; without --skipPostUpdate every post whose pass has completed
\* had its article file written once.
C7_ForceRegenerates ==
  force =>
    \A s \in Slugs :
      /\ (s \in attempted /\ ~skipImageGeneration) =>
           \/ gotoCalls[s] = 1
           \/ pc = "goto" /\ post = s
      /\ (Passed(s) /\ ~skipImageGeneration) =>
           shotCalls[s] = 1 /\ cards[s] = run
      /\ skipImageGeneration =>
           gotoCalls[s] = 0 /\ shotCalls[s] = 0 /\ cards[s] = fsAtStart.cards[s]
      /\ (Passed(s) /\ ~skipPostUpdate) => postWrites[s] = 1
      /\ skipPostUpdate => postWrites[s] = 0

\* C7's case: a second run, with --force, has overwritten the cards that the
\* first run wrote
C7_Witness ==
  /\ run = 2
  /\ Ended
  /\ exitCode = 0
  /\ force
  /\ ~skipImageGeneration
  /\ Len(posts) = 2
  /\ \A s \in Range(posts) :
       fsAtStart.cards[s] = 1 /\ cards[s] = 2 /\ shotCalls[s] = 1

\* C8: with --skipImage and --skipPostUpdate both set a run writes nothing,
\* with or without --force: the directories, the cards and the files of the
\* content directory are what they were when the run started.
C8_BothSkipsWriteNothing ==
  (skipImageGeneration /\ skipPostUpdate) =>
    /\ FileSystem = fsAtStart
    /\ \A s \in Slugs : gotoCalls[s] = 0 /\ shotCalls[s] = 0 /\ postWrites[s] = 0

\* C8's case: a run with the two skip flags and --force has gone over two
\* posts that have no card and lack the card's path, and has ended
C8_Witness ==
  /\ Ended
  /\ exitCode = 0
  /\ skipImageGeneration
  /\ skipPostUpdate
  /\ force
  /\ Len(posts) = 2
  /\ attempted = Range(posts)
  /\ \A s \in Range(posts) :
       /\ cards[s] = 0
       /\ Occurrences(ImageList(files[PostFile(s)]), PublicCardPath(s)) = 0

\* the places in pListing of the names that are a non-empty stem followed by
\* ".md"
MdPlaces ==
  {i \in 1..Len(pListing) :
     \E n \in 1..Len(pListing[i]) :
       pListing[i] = SubSeq(pListing[i], 1, n) \o <<".", "m", "d">>}

\* the k-th of those places, in listing order
MdPlace(k) ==
  CHOOSE i \in MdPlaces : Cardinality({j \in MdPlaces : j <= i}) = k

\* C9: article discovery.  getAllPosts returns one slug per entry of the
\* listing whose extension is .md, in listing order, and each slug is the
\* entry's name without that extension; the other entries give nothing.
C9_Discovery ==
  pDone =>
    /\ Len(pPosts) = Cardinality(MdPlaces)
    /\ \A k \in 1..Len(pPosts) : pPosts[k] \o <<".", "m", "d">> = pListing[MdPlace(k)]

\* C9's case: a listing of three names, the first no article, the others
\* articles, one of them with a dot in its stem
C9_Witness ==
  /\ pDone
  /\ pListing = <<FileN, <<"a", ".", "b", ".", "m", "d">>, FileA>>
  /\ pPosts = <<<<"a", ".", "b">>, <<"a">>>>

\* C10: the end-to-end run.  Over a content directory of the articles a and
\* b alone, with no card and no output directory yet, a run without flags
\* that ended with exit code zero leaves exactly the two output directories,
\* a card in each, and both article files written once, the first entry of
\* each image list being the article's own card path.
C10_EndToEnd ==
  ( /\ Ended
    /\ exitCode = 0
    /\ NoFlags
    /\ Range(dirEntries) = {FileA, FileB}
    /\ fsAtStart.dirs = {}
    /\ \A s \in Slugs : fsAtStart.cards[s] = 0 )
  => /\ dirs = {<<"a">>, <<"b">>}
     /\ \A s \in {<<"a">>, <<"b">>} :
          /\ cards[s] = run
          /\ gotoCalls[s] = 1
          /\ shotCalls[s] = 1
          /\ postWrites[s] = 1
          /\ Len(ImageList(files[PostFile(s)])) >= 1
          /\ ImageList(files[PostFile(s)])[1] = PublicCardPath(s)
          /\ BodyOf(files[PostFile(s)]) = BodyOf(fsAtStart.files[PostFile(s)])

\* C10's case: that run has ended, b listed before a, one article with an
\* image list and one without
C10_Witness ==
  /\ run = 1
  /\ Ended
  /\ exitCode = 0
  /\ NoFlags
  /\ dirEntries = <<FileB, FileA>>
  /\ ImageList(fsAtStart.files[FileA]) = <<OtherImage>>
  /\ ImageList(fsAtStart.files[FileB]) = <<>>
  /\ dirs = {<<"a">>, <<"b">>}
  /\ ImageList(files[FileA]) = <<PublicCardPath(<<"a">>), OtherImage>>
  /\ ImageList(files[FileB]) = <<PublicCardPath(<<"b">>)>>

\* the three elements that removeUnnecessaryElements looks up
RequiredElements == {"header", "time", "prose"}

\* C11: missing DOM target.  When the page of an article lacks one of header,
\* time and .prose, the preparation of that article fails, and in that run no
\* screenshot is taken of it, its card file is not written and its article
\* file is not updated; and page.screenshot is only ever called on the page of
\* the article with all three elements set to visibility hidden.
C11_MissingElement ==
  /\ err \in RequiredElements =>
       /\ pc \in {"catch", "done"}
       /\ err \notin page.hidden
       /\ shotCalls[post] = 0
       /\ cards[post] = fsAtStart.cards[post]
       /\ postWrites[post] = 0
       /\ files[PostFile(post)] = fsAtStart.files[PostFile(post)]
  /\ pc = "screenshot" =>
       /\ page.url = post
       /\ page.hidden = RequiredElements
  /\ \A s \in Slugs : shotCalls[s] > 0 => gotoCalls[s] > 0

\* C11's case: the page of an article had its header and its time but no
\* .prose, and the process has ended without a card for the article
C11_Witness ==
  /\ Ended
  /\ err = "prose"
  /\ page.url = post
  /\ page.hidden = {"header", "time"}
  /\ gotoCalls[post] = 1
  /\ shotCalls[post] = 0
  /\ cards[post] = 0
  /\ files[PostFile(post)] = fsAtStart.files[PostFile(post)]

\* C12: the metadata write is failure-atomic.  Whatever happens during
\* updatePost, the file of every article holds either the complete text that
\* the run found or the complete text that updatePost computes from it, never
\* a part of a text.
C12_WriteAtomic ==
  \A s \in Range(getAllPosts(dirEntries)) :
    files[PostFile(s)] \in
      { fsAtStart.files[PostFile(s)],
        UpdatedContents(s, fsAtStart.files[PostFile(s)]) }

\* C13: browser resource release.  On every path on which the process ends
\* after the browser was launched, the browser and its page have been closed
\* before the process ends.
C13_BrowserReleased ==
  (Ended /\ browser # "none") => (browser = "closed" /\ ~page.open)

\* C14: infrastructure failure.  When puppeteer.launch fails the run is
\* aborted: no post is listed or navigated to, no card, directory or article
\* file is written, and the process ends with exit code 1 after printing the
\* error of the launch.
C14_LaunchFailure ==
  err = "launch" =>
    /\ pc \in {"catch", "done"}
    /\ browser = "none"
    /\ posts = <<>>
    /\ attempted = {}
    /\ \A s \in Slugs : gotoCalls[s] = 0 /\ shotCalls[s] = 0 /\ postWrites[s] = 0
    /\ FileSystem = fsAtStart
    /\ pc = "catch" => (exitCode = -1 /\ stderr = <<>>)
    /\ Ended => (exitCode = 1 /\ stderr = <<"launch">>)

\* C14's case: the launch failed over a directory of two articles, and the
\* process has ended
C14_Witness ==
  /\ Ended
  /\ err = "launch"
  /\ exitCode = 1
  /\ stderr = <<"launch">>
  /\ Len(getAllPosts(dirEntries)) = 2
  /\ posts = <<>>
  /\ dirs = {}

\* the content directory holds no article
NoArticle == \A i \in 1..Len(dirEntries) : dirEntries[i] \notin {FileA, FileB}

\* the operations of main that come before its loop
StartupOperations == {"launch", "newPage", "emulateMediaFeatures", "readdirSync"}

\* C15: content directory errors.  A content directory that cannot be read
\* is fatal for the whole run: the error is printed, no article is processed
\* and no file is written.  A content directory that is there and holds no
\* article gives the empty sequence of posts, and the run makes no navigation
\* and no write and ends with exit code zero.
C15_ContentDirectory ==
  /\ err = "readdirSync" =>
       /\ pc \in {"catch", "done"}
       /\ posts = <<>>
       /\ attempted = {}
       /\ \A s \in Slugs : gotoCalls[s] = 0 /\ shotCalls[s] = 0 /\ postWrites[s] = 0
       /\ FileSystem = fsAtStart
       /\ Ended => (exitCode = 1 /\ stderr = <<"readdirSync">>)
  /\ (NoArticle /\ pc \in {"loop", "catch", "done"} /\ err \notin StartupOperations) =>
       /\ posts = <<>>
       /\ attempted = {}
       /\ \A s \in Slugs : gotoCalls[s] = 0 /\ shotCalls[s] = 0 /\ postWrites[s] = 0
       /\ FileSystem = fsAtStart
       /\ err \in {"none", "close"}
       /\ (Ended /\ err = "none") =>
            (exitCode = 0 /\ stderr = <<>> /\ browser = "closed")

\* C15's case: a run over a content directory that holds one file, which is
\* no article, has ended
C15_Witness ==
  /\ Ended
  /\ dirEntries = <<FileN>>
  /\ err = "none"
  /\ exitCode = 0
  /\ posts = <<>>
  /\ browser = "closed"
  /\ FileSystem = fsAtStart

\* the gate of this run let the post s through: it had no card when the run
\* started, or the run has --force
PassedGate(s) == ~(fsAtStart.cards[s] # 0 /\ ~force)

\* C16: the two phase flags are independent.  For every post that the gate
\* lets through, --skipImage alone decides whether the image is generated
\* (one navigation, one capture, the card written) and --skipPostUpdate alone
\* decides whether the article file is rewritten: a post the loop is done
\* with has had each phase exactly when the flag of that phase is absent, and
\* a phase whose flag is present never starts.
C16_FlagsIndependent ==
  \A s \in attempted :
    PassedGate(s) =>
      /\ skipImageGeneration =>
           /\ gotoCalls[s] = 0
           /\ shotCalls[s] = 0
           /\ cards[s] = fsAtStart.cards[s]
      /\ skipPostUpdate =>
           /\ postWrites[s] = 0
           /\ files[PostFile(s)] = fsAtStart.files[PostFile(s)]
      /\ Passed(s) =>
           /\ (gotoCalls[s] = 1) <=> ~skipImageGeneration
           /\ (shotCalls[s] = 1 /\ cards[s] = run) <=> ~skipImageGeneration
           /\ (postWrites[s] = 1) <=> ~skipPostUpdate

\* C16's case: a run with --skipImage alone over two articles without cards
\* has ended; it generated no image and updated both article files
C16_Witness ==
  /\ Ended
  /\ exitCode = 0
  /\ skipImageGeneration
  /\ ~skipPostUpdate
  /\ ~force
  /\ Len(posts) = 2
  /\ \A s \in Range(posts) :
       /\ PassedGate(s)
       /\ Passed(s)
       /\ gotoCalls[s] = 0
       /\ cards[s] = 0
       /\ postWrites[s] = 1
       /\ ImageList(files[PostFile(s)])[1] = PublicCardPath(s)

\* C17: the idempotency check is not a lock.  When two runs without --force
\* work at the same time on one content directory and one output directory,
\* both can find no card for a post and both capture it and write its card
\* (C17_Witness); the card is then the one of a run that captured the post,
\* the later write replacing the earlier one, and as long as no write of the
\* article file has failed the file is as the run found it or holds what the
\* update of a run has written: the card path once, in front of the images
\* it had, and the rest as it was.
C17_LastWriterWins ==
  /\ \A s \in Slugs :
       cards[s] # 0 => \E p \in Both : p.run = cards[s] /\ p.shotCalls[s] = 1
  /\ \A s \in Range(getAllPosts(dirEntries)) :
       LET orig == fsAtStart.files[PostFile(s)]
           now  == files[PostFile(s)]
       IN  (\A p \in Both : p.err # "writeFileSync") =>
             IF \E p \in Both : p.postWrites[s] = 1
             THEN /\ ImageList(now) = <<PublicCardPath(s)>> \o ImageList(orig)
                  /\ OtherEntries(now) = OtherEntries(orig)
                  /\ BodyOf(now) = BodyOf(orig)
             ELSE now = orig

\* C17's case: two runs without flags have both ended with exit code zero;
\* each navigated to the article, captured it and rewrote its file, and the
\* card is the one of the second process although the first ended last
C17_Witness ==
  /\ run = 1
  /\ other.run = 2
  /\ \A p \in Both :
       /\ p.pc = "done"
       /\ p.exitCode = 0
       /\ ~p.force /\ ~p.skipImageGeneration /\ ~p.skipPostUpdate
       /\ p.gotoCalls[<<"a">>] = 1
       /\ p.shotCalls[<<"a">>] = 1
       /\ p.postWrites[<<"a">>] = 1
  /\ cards[<<"a">>] = 2
  /\ Occurrences(ImageList(files[FileA]), PublicCardPath(<<"a">>)) = 1

\* C18: output layout.  Between two articles and after the run has failed or
\* ended, every directory public/static/blog/<post> that exists holds its
\* one image file twitter-card.png: there is no directory of a post without
\* the card of the post.
C18_OutputLayout ==
  pc \in {"loop", "catch", "done"} => \A s \in dirs : cards[s] # 0

\* a pass of the loop starts: the gate is evaluated for the post at idx
GateStep == pc = "loop" /\ idx <= Len(posts) /\ <<pc, idx>>' # <<pc, idx>>

\* C19: termination.  When every awaited operation of the browser resolves or
\* rejects in the end, a run that was started ends; every pass of the loop is
\* for a post that was not attempted before, and posts are only attempted by
\* passes of the loop; and a run that has ended with exit code zero has
\* attempted every post that was discovered, each of them once.
C19_Termination ==
  /\ <>Ended
  /\ [][ /\ GateStep => (post \notin attempted /\ attempted' = attempted \cup {post})
         /\ attempted' # attempted => GateStep ]_vars
  /\ [](Ended /\ exitCode = 0 =>
          /\ posts = getAllPosts(dirEntries)
          /\ idx = Len(posts) + 1
          /\ attempted = Range(posts)
          /\ Cardinality(attempted) = Len(posts))

\* C19's case: a run over two articles has ended with exit code zero, having
\* attempted both
C19_Witness ==
  /\ Ended
  /\ exitCode = 0
  /\ err = "none"
  /\ Len(posts) = 2
  /\ idx = 3
  /\ attempted = Range(posts)
  /\ browser = "closed"

\* the steps of the image phase of one article, in the order of the code
ImageSteps ==
  <<"goto", "waitForNetworkIdle", "header", "time", "prose", "delay",
    "mkdirp", "screenshot">>

\* the place of the step the run is at in the image phase, 0 outside it
ImageStep ==
  IF \E i \in 1..Len(ImageSteps) : ImageSteps[i] = pc
  THEN CHOOSE i \in 1..Len(ImageSteps) : ImageSteps[i] = pc
  ELSE 0

\* C20: step ordering within one article.  The steps of an article that is
\* captured come in the order navigation, network idle, header hidden, time
\* hidden, prose hidden, settle delay, output directory, screenshot, and then
\* the metadata update: at every step the page of the article shows exactly
\* the steps before it, the screenshot is called only on a page that is idle,
\* has the three elements hidden and has settled, with the directory made,
\* and the article file is only rewritten after its card was written.
C20_StepOrder ==
  /\ ImageStep > 1 =>
       /\ page.url = post
       /\ page.idle <=> ImageStep > 2
       /\ ("header" \in page.hidden) <=> ImageStep > 3
       /\ ("time" \in page.hidden) <=> ImageStep > 4
       /\ ("prose" \in page.hidden) <=> ImageStep > 5
       /\ page.settled <=> ImageStep > 6
       /\ ImageStep > 7 => post \in dirs
       /\ shotCalls[post] = 0
       /\ postWrites[post] = 0
  /\ (pc \in {"readPost", "writePost"} /\ ~skipImageGeneration) =>
       /\ page.url = post
       /\ page.idle /\ page.hidden = RequiredElements /\ page.settled
       /\ shotCalls[post] = 1
       /\ cards[post] = run
       /\ post \in dirs
  /\ \A s \in Slugs :
       /\ (postWrites[s] = 1 /\ ~skipImageGeneration) => cards[s] = run
       /\ cards[s] = run => (s \in dirs /\ shotCalls[s] = 1 /\ gotoCalls[s] = 1)

\* C20's case: the second article of a run was navigated to, prepared and
\* captured, and its file is about to be rewritten
C20_Witness ==
  /\ pc = "writePost"
  /\ ~skipImageGeneration
  /\ idx = 2
  /\ page.url = post
  /\ page.idle /\ page.hidden = RequiredElements /\ page.settled
  /\ cards[post] = run
  /\ postWrites[post] = 0
  /\ postWrites[posts[1]] = 1

\* C21: no retries.  In a run page.goto is called at most once for a post,
\* whether the navigation succeeds or fails, and only for a post that the
\* loop reached, that passed the gate, in a run that generates images.
C21_NoRetries ==
  \A s \in Slugs :
    /\ gotoCalls[s] <= 1
    /\ gotoCalls[s] = 1 =>
         /\ s \in attempted
         /\ PassedGate(s)
         /\ ~skipImageGeneration
    /\ (err = "goto" /\ s = post) => (gotoCalls[s] = 1 /\ pc \in {"catch", "done"})

\* C21's case: the navigation to an article failed, after one call, and the
\* process has ended
C21_Witness ==
  /\ Ended
  /\ err = "goto"
  /\ exitCode = 1
  /\ gotoCalls[post] = 1
  /\ shotCalls[post] = 0
  /\ page.url # post

\* C22: settle delay bounds.  Whatever value in [0, 1) Math.random() gives,
\* delayRandom(1000, 2000) sets its timer to a whole number of milliseconds
\* from 1000 to 2000.
C22_DelayBounds ==
  dDone => (dWait \in Int /\ 1000 <= dWait /\ dWait <= 2000)

\* the strings the images key of an article text holds: the entries of its
\* list, or the one string it is
ImageStrings(text) ==
  LET images == GetKey(DataOf(text), "images")
  IN  IF images.kind = "list" THEN Range(images.items)
      ELSE IF images.kind = "str" THEN {images.s}
      ELSE {}

\* C23: exact membership test.  updatePost takes the card path as present
\* only when a string of the images key is equal to the whole path: when
\* none is, strings that hold the path as a part or are a part of it do not
\* count, and the update puts the path at the front of the image list.
C23_ExactMembership ==
  (uCount >= 1 /\ PublicCardPath(uPost) \notin ImageStrings(uOrig)) =>
    /\ ImageList(uOnce) # <<>>
    /\ ImageList(uOnce)[1] = PublicCardPath(uPost)

\* C24: dark colour scheme.  Every navigation and every screenshot is made on
\* the open page of the browser with prefers-color-scheme set to dark: the
\* emulation was applied before the first article and no step takes it back.
C24_DarkScheme ==
  /\ ImageStep > 0 => (browser = "open" /\ page.open /\ page.dark)
  /\ \A s \in Slugs :
       (gotoCalls[s] > 0 \/ shotCalls[s] > 0) => page.dark
  /\ pc = "loop" => page.dark

\* C24's case: the second article of a run is about to be captured, on the
\* dark page that the first one was captured on
C24_Witness ==
  /\ pc = "screenshot"
  /\ idx = 2
  /\ page.dark
  /\ page.url = post
  /\ cards[posts[1]] = run
  /\ shotCalls[posts[1]] = 1

\* C25: reading of the command line.  After main's loop over its arguments
\* each of the three settings is on exactly when its flag is among the
\* arguments: the order of the arguments, their repetition and the arguments
\* that name no flag make no difference, every combination of the three flags
\* is taken, and with no flag all three settings are off.
C25_FlagParsing ==
  aDone =>
    /\ aFlags.skipImageGeneration <=> ("--skipImage" \in Range(aArgs))
    /\ aFlags.skipPostUpdate <=> ("--skipPostUpdate" \in Range(aArgs))
    /\ aFlags.force <=> ("--force" \in Range(aArgs))
    /\ DOMAIN aFlags = {"skipImageGeneration", "skipPostUpdate", "force"}

\* C25's case: a flag given twice around an argument that names no flag
C25_Witness ==
  /\ aDone
  /\ aArgs = <<"--force", "--verbose", "--force">>
  /\ aFlags.force
  /\ ~aFlags.skipImageGeneration
  /\ ~aFlags.skipPostUpdate

\* C26: the skip gate covers the metadata phase too.  In a run without
\* --force, a post whose card exists when the loop reaches it has neither
\* phase: it is not navigated to, not captured, its file is neither read nor
\* written by updatePost and stays as it was when the run started, also when
\* --skipPostUpdate is absent and its image list lacks the path of the card.
C26_GateCoversMetadata ==
  ~force =>
    \A s \in Range(posts) :
      fsAtStart.cards[s] # 0 =>
        /\ gotoCalls[s] = 0
        /\ shotCalls[s] = 0
        /\ postWrites[s] = 0
        /\ cards[s] = fsAtStart.cards[s]
        /\ files[PostFile(s)] = fsAtStart.files[PostFile(s)]
        /\ (idx <= Len(posts) /\ post = s) => pc \in {"loop", "catch", "done"}

\* C26's case: a run with neither --force nor --skipPostUpdate has ended
\* after its loop went over a post whose card an earlier run had written
\* without linking it; the path of the card is still not in the image list
C26_Witness ==
  /\ run = 2
  /\ Ended
  /\ exitCode = 0
  /\ ~force
  /\ ~skipPostUpdate
  /\ \E s \in attempted :
       /\ fsAtStart.cards[s] = 1
       /\ cards[s] = 1
       /\ postWrites[s] = 0
       /\ Occurrences(ImageList(files[PostFile(s)]), PublicCardPath(s)) = 0

\* C27: metadata follows capture.  In a run without --skipImage the metadata
\* update of a post starts only after the card of that post was written by
\* the same run: a post whose file is being read or rewritten, was rewritten,
\* or differs from what it was at the start of the run, has been captured
\* once in this run and has the card this run wrote.  So such a run never
\* adds the path of a card to an article whose card is not on disk.
C27_MetadataFollowsCapture ==
  ~skipImageGeneration =>
    \A s \in Range(posts) :
      /\ ( \/ postWrites[s] > 0
           \/ files[PostFile(s)] # fsAtStart.files[PostFile(s)]
           \/ idx <= Len(posts) /\ post = s /\ pc \in {"readPost", "writePost"} ) =>
           /\ shotCalls[s] = 1
           /\ cards[s] = run
      /\ Occurrences(ImageList(files[PostFile(s)]), PublicCardPath(s))
           > Occurrences(ImageList(fsAtStart.files[PostFile(s)]), PublicCardPath(s))
           => cards[s] # 0

\* C27's case: in a run without flags the first post has just had the path
\* of its card put first in its image list, after its card was written
C27_Witness ==
  /\ run = 1
  /\ ~skipImageGeneration
  /\ ~skipPostUpdate
  /\ pc = "loop"
  /\ idx = 2
  /\ shotCalls[posts[1]] = 1
  /\ cards[posts[1]] = 1
  /\ postWrites[posts[1]] = 1
  /\ Occurrences(ImageList(fsAtStart.files[PostFile(posts[1])]),
                 PublicCardPath(posts[1])) = 0
  /\ ImageList(files[PostFile(posts[1])])[1] = PublicCardPath(posts[1])

\* the first k posts of the discovery sequence
PostsUpTo(k) == {posts[i] : i \in {j \in 1..Len(posts) : j <= k}}

\* nothing of the run has reached post s: no navigation, no capture, no
\* metadata write, and its card and its file are as at the start of the run
Untouched(s) ==
  /\ gotoCalls[s] = 0
  /\ shotCalls[s] = 0
  /\ postWrites[s] = 0
  /\ cards[s] = fsAtStart.cards[s]
  /\ files[PostFile(s)] = fsAtStart.files[PostFile(s)]

\* C28: prefix property.  The posts are processed one at a time in discovery
\* order: at every moment, and so at every end of the run, with an error or
\* without, the posts the run has attempted are the first idx - 1 or the
\* first idx of the sequence, every post before the current one has had its
\* whole pass, and every post that was not attempted, so every post after one
\* that failed, has had no navigation, no card write and no metadata write.
C28_PrefixOnAbort ==
  /\ attempted \in {PostsUpTo(idx - 1), PostsUpTo(idx)}
  /\ pc \notin {"loop", "catch", "done"} => attempted = PostsUpTo(idx)
  /\ \A i \in 1..Len(posts) :
       /\ i > idx => (posts[i] \notin attempted /\ Untouched(posts[i]))
       /\ posts[i] \notin attempted => Untouched(posts[i])
  /\ (Ended /\ err \in PerArticleOperations) =>
       /\ exitCode = 1
       /\ idx <= Len(posts)
       /\ attempted = PostsUpTo(idx)

\* C28's case: the run has ended on the failed capture of the first of two
\* posts, and the second post was not reached
C28_Witness ==
  /\ Ended
  /\ exitCode = 1
  /\ err = "screenshot"
  /\ Len(posts) = 2
  /\ idx = 1
  /\ attempted = {posts[1]}
  /\ gotoCalls[posts[1]] = 1
  /\ Untouched(posts[2])

\* C29: no duplicates under concurrent runs.  With two runs at the same time
\* on one content directory, the read and the write of updatePost being
\* separate steps between which the other run may read and write, the image
\* list of an article never holds the path of its card more than once; and
\* once both runs have ended, with no write of an article file having failed,
\* the list of every post that a run has updated holds the path exactly once.
C29_NoDuplicates ==
  \A s \in Range(getAllPosts(dirEntries)) :
    LET n == Occurrences(ImageList(files[PostFile(s)]), PublicCardPath(s))
    IN  /\ n <= 1
        /\ ( /\ \A p \in Both : p.pc = "done" /\ p.err # "writeFileSync"
             /\ \E p \in Both : p.postWrites[s] >= 1 ) => n = 1

\* C29's case: both runs read the article before either wrote it, both wrote
\* it, and both have ended
C29_Witness ==
  /\ \A p \in Both :
       /\ p.pc = "done"
       /\ p.exitCode = 0
       /\ p.postWrites[<<"a">>] = 1
       /\ Occurrences(ImageList(p.contents), PublicCardPath(<<"a">>)) = 0
  /\ Occurrences(ImageList(files[FileA]), PublicCardPath(<<"a">>)) = 1

\* C30: --skipImage freezes the output root.  In a run with --skipImage, with
\* or without --force, no directory is made and no card is written or
\* replaced, the page is never navigated and never captured, and no step of
\* the image phase is entered; with --force and without --skipPostUpdate the
\* run still updates every post it is done with, which at exit code zero is
\* every post that was discovered.
C30_SkipImageFreezes ==
  skipImageGeneration =>
    /\ dirs = fsAtStart.dirs
    /\ cards = fsAtStart.cards
    /\ \A s \in Slugs : gotoCalls[s] = 0 /\ shotCalls[s] = 0
    /\ ImageStep = 0
    /\ page.url = <<>>
    /\ (force /\ ~skipPostUpdate) =>
         /\ \A s \in Slugs : Passed(s) => postWrites[s] = 1
         /\ (Ended /\ exitCode = 0) =>
              \A s \in Range(getAllPosts(dirEntries)) : postWrites[s] = 1

\* C30's case: a second run, with --skipImage and --force, has ended with exit
\* code zero over two posts whose cards the first run wrote: the cards are
\* still those of the first run and each article file was rewritten
C30_Witness ==
  /\ run = 2
  /\ Ended
  /\ exitCode = 0
  /\ skipImageGeneration
  /\ force
  /\ ~skipPostUpdate
  /\ Len(posts) = 2
  /\ \A s \in Range(posts) :
       /\ fsAtStart.cards[s] = 1
       /\ cards[s] = 1
       /\ shotCalls[s] = 0
       /\ postWrites[s] = 1

====
